---------------------------- MODULE Spec2Model ----------------------------
(***************************************************************************)
(* Model of the browser-signing relay of py-gods-unchained-market          *)
(* (src/imx_wallet.py): the caller thread running the imx_web_wallet       *)
(* operations, the relay server thread(s) started by request_signature,    *)
(* the HTTP handlers do_GET / do_POST, and the module globals they share   *)
(* (message_to_sign, action_to_perform, signature_queue, http_server,      *)
(* PORT).  Every statement that reads or writes a shared global is one     *)
(* step, so that the interleavings of the two threads are explored.        *)
(*                                                                         *)
(* The last two sections model the wallet vault of src/key_loader.py: the   *)
(* cipher (encrypt, decrypt) and the wallet files (save_wallet,            *)
(* load_wallet, load_wallet_address, prompt_load_wallet).                  *)
(*                                                                         *)
(* Python strings that are converted (hex addresses and signatures) are    *)
(* sequences of one-character strings, e.g. "0x0a" is <<"0","x","0","a">>. *)
(* Variables whose name starts with g_ are history variables that the      *)
(* program does not have; they only record what happened.                  *)
(***************************************************************************)
EXTENDS Integers, Sequences, FiniteSets, TLC

(* ---------------------------- bounds ---------------------------------- *)
MaxSessions == 2      \* signing operations started by the caller
MaxQueue == 1         \* results buffered in signature_queue
MaxAttempts == 2      \* failed password attempts counted by the history of the prompt

(* ------------------------- input domains ------------------------------ *)
\* messages handed out by the trading platform (imx_get_seed_msg, imx_request_*)
Messages == {"m1", "m2"}

\* address strings a browser may report for its active account: a canonical
\* one, the same account with a leading zero and an upper-case digit, and
\* another account
AddrStrings == { <<"0","x","a">>, <<"0","x","0","A">>, <<"0","x","b">> }


NoResult == [address |-> <<>>, message |-> "", signature |-> <<>>, pub |-> -2]
Awaited == [address |-> <<>>, message |-> "", signature |-> <<>>, pub |-> -1]

(* ------------------------ int(s, 16) and hex(n) ----------------------- *)
DigitValue(c) ==
  CASE c = "0" -> 0 [] c = "1" -> 1 [] c = "2" -> 2 [] c = "3" -> 3
    [] c = "4" -> 4 [] c = "5" -> 5 [] c = "6" -> 6 [] c = "7" -> 7
    [] c = "8" -> 8 [] c = "9" -> 9
    [] c \in {"a", "A"} -> 10 [] c \in {"b", "B"} -> 11
    [] c \in {"c", "C"} -> 12 [] c \in {"d", "D"} -> 13
    [] c \in {"e", "E"} -> 14 [] c \in {"f", "F"} -> 15

RECURSIVE DigitsValue(_)
DigitsValue(s) ==
  IF s = <<>> THEN 0
  ELSE 16 * DigitsValue(SubSeq(s, 1, Len(s) - 1)) + DigitValue(s[Len(s)])

\* int(s, 16): an optional "0x"/"0X" prefix, then the digits
ParseHex(s) ==
  IF Len(s) >= 2 /\ s[1] = "0" /\ s[2] \in {"x", "X"}
  THEN DigitsValue(SubSeq(s, 3, Len(s)))
  ELSE DigitsValue(s)

HexDigit(d) ==
  CASE d = 0 -> "0" [] d = 1 -> "1" [] d = 2 -> "2" [] d = 3 -> "3"
    [] d = 4 -> "4" [] d = 5 -> "5" [] d = 6 -> "6" [] d = 7 -> "7"
    [] d = 8 -> "8" [] d = 9 -> "9" [] d = 10 -> "a" [] d = 11 -> "b"
    [] d = 12 -> "c" [] d = 13 -> "d" [] d = 14 -> "e" [] d = 15 -> "f"

RECURSIVE HexDigits(_)
HexDigits(n) ==
  IF n < 16 THEN << HexDigit(n) >>
  ELSE Append(HexDigits(n \div 16), HexDigit(n % 16))

\* str(hex(n)): "0x", lower-case digits, no leading zeros
Hex(n) == <<"0", "x">> \o HexDigits(n)

\* the signing page, line 174: personal_sign of the message by the account;
\* a different account or a different message gives a different signature
PersonalSign(a, m) ==
  Hex(2 * (ParseHex(a) - 10) + (IF m = "m1" THEN 1 ELSE 2))

\* bodies of POST /signature as built by the signing page (line 175)
Results ==
  { [address |-> a, message |-> m, signature |-> PersonalSign(a, m)] :
      a \in AddrStrings, m \in Messages }

(* -------------------- JSON.stringify and json.loads ------------------- *)
\* A request body is the sequence of the tokens of its text.
\* JSON.stringify of the page's object (line 175)
Stringify(r) ==
  << "{", "address", ":", r.address, ",", "message", ":", r.message, ",",
     "signature", ":", r.signature, "}" >>

\* bodies json.loads cannot parse: an empty body and a body cut off before
\* its closing brace
Truncated(b) == SubSeq(b, 1, Len(b) - 1)

Malformed ==
  { <<>>,
    Truncated(Stringify([address |-> <<"0","x","a">>, message |-> "m1",
                         signature |-> PersonalSign(<<"0","x","a">>, "m1")])) }

\* bodies of POST /signature that reach the server
Bodies == { Stringify(r) : r \in Results } \cup Malformed

\* number of key/value pairs of an object of that many tokens
Pairs(b) == (Len(b) - 1) \div 4

\* json.loads accepts b: braces around pairs key ":" value, "," in between
WellFormed(b) ==
  /\ Len(b) > 1
  /\ (Len(b) - 1) % 4 = 0
  /\ b[1] = "{"
  /\ \A i \in 1 .. Pairs(b) :
       /\ b[4 * i - 1] = ":"
       /\ b[4 * i + 1] = (IF i = Pairs(b) THEN "}" ELSE ",")

\* json.loads(b) for a body it accepts: the dict of its pairs
json_loads(b) ==
  [ k \in { b[4 * i - 2] : i \in 1 .. Pairs(b) } |->
      b[4 * (CHOOSE i \in 1 .. Pairs(b) : b[4 * i - 2] = k)] ]

(* ----------------------------- state ---------------------------------- *)
VARIABLES
  message_to_sign,    \* module global, line 145
  action_to_perform,  \* module global, line 146
  signature_queue,    \* module global queue.Queue(), line 144
  http_server,        \* module global: 0 = not in globals(), else the thread whose TCPServer it is
  PORT,               \* module global: 0 = not in globals(), else its value
  thr,                \* server threads: position of each thread in run_server
  portOwner,          \* thread whose socket is bound to the port, 0 = free
  shutdown_request,   \* servers on which shutdown() was called and not yet honoured
  hpc,                \* position of the request handler of the serving thread
  action_text,        \* local of do_GET
  resp,               \* the HTTP response written by the step just taken
  pc,                 \* position of the caller thread
  op,                 \* operation the caller runs
  msg,                \* local: the message to be signed
  result,             \* local: the result taken from signature_queue
  address,            \* self.address of the web wallet, -1 = no wallet connected
  imx_seed,           \* self.imx_seed of the web wallet, -1 = no wallet connected
  outcome,            \* how the operation ended
  submits,            \* submit calls to the trading platform made by the operation
  g_npub,             \* number of publishes so far
  g_actPub,           \* publish that wrote action_to_perform
  g_consumed,         \* results taken from the queue by the operation
  g_firstPost,        \* Awaited after a publish on an empty queue, then the first result POSTed if it answers the request
  g_obs,              \* publish whose description the running GET /action read
  g_prev,             \* message of the previous request while it is unanswered and differs from the current one
  g_pending,          \* message of the latest publish while the operation has not finished it
  g_posted,           \* bodies of the accepted POSTs not yet handed to an operation, oldest first
  request,            \* the GET request the server has accepted and not yet answered
  call,               \* key_loader: the function called last and its arguments
  ret,                \* key_loader: what that call returned or raised
  prev,               \* key_loader: the call before it and its result
  files,              \* key_loader: the wallet files of the working directory, by address
  ppc,                \* prompt_load_wallet: position
  choice,             \* prompt_load_wallet: address of the wallet chosen
  eth_priv,           \* prompt_load_wallet: local eth_priv
  g_saved,            \* key and password each wallet file was written with
  g_failed            \* failed password attempts of the running prompt, counted up to MaxAttempts

vars == << message_to_sign, action_to_perform, signature_queue, http_server,
           PORT, thr, portOwner, shutdown_request, hpc, action_text, resp,
           pc, op, msg, result, address, imx_seed, outcome, submits,
           g_npub, g_actPub, g_consumed, g_firstPost, g_obs,
           g_prev, g_pending, g_posted, request,
           call, ret, prev, files, ppc, choice, eth_priv, g_saved, g_failed >>

globalVars == << message_to_sign, action_to_perform, signature_queue >>
serverVars == << http_server, PORT, thr, portOwner, shutdown_request >>
handlerVars == << hpc, action_text, g_obs >>
callerVars == << pc, op, msg, result, address, imx_seed, outcome, submits >>
ghostVars == << g_npub, g_actPub, g_consumed, g_firstPost,
               g_prev, g_pending, g_posted >>

relayVars == << globalVars, serverVars, handlerVars, callerVars, ghostVars,
               resp, request >>
keyVars == << call, ret, prev, files, ppc, choice, eth_priv, g_saved, g_failed >>

Threads == 1 .. MaxSessions

NoResp == [path |-> "", kind |-> "", text |-> "", actPub |-> 0, msgPub |-> 0]

\* no request accepted; pub is the publish the caller was waiting on when the
\* request was accepted (0: the caller was not waiting)
NoRequest == [path |-> "", pub |-> 0]

\* key_loader: nothing called yet; a call that returned v; a call that raised
NoCall == [fn |-> "none"]
NoValue == [raised |-> "", value |-> << >>]
Return(v) == [raised |-> "", value |-> v]
Raise(e) == [raised |-> e, value |-> << >>]

Init ==
  /\ message_to_sign = ""
  /\ action_to_perform = ""
  /\ signature_queue = <<>>
  /\ http_server = 0
  /\ PORT = 0
  /\ thr = [t \in Threads |-> "unstarted"]
  /\ portOwner = 0
  /\ shutdown_request = {}
  /\ hpc = "idle"
  /\ action_text = ""
  /\ resp = NoResp
  /\ pc = "idle"
  /\ op = "none"
  /\ msg = ""
  /\ result = NoResult
  /\ address = -1
  /\ imx_seed = -1
  /\ outcome = "none"
  /\ submits = <<>>
  /\ g_npub = 0
  /\ g_actPub = 0
  /\ g_consumed = 0
  /\ g_firstPost = NoResult
  /\ g_obs = 0
  /\ g_prev = ""
  /\ g_pending = ""
  /\ g_posted = <<>>
  /\ request = NoRequest
  /\ call = NoCall
  /\ ret = NoValue
  /\ prev = [call |-> NoCall, ret |-> NoValue]
  /\ files = {}
  /\ ppc = "idle"
  /\ choice = << >>
  /\ eth_priv = NoValue
  /\ g_saved = {}
  /\ g_failed = 0


(* ------------------- per-operation data (lines 59-142) ---------------- *)
SeedMsg == "m1"       \* imx_get_seed_msg(): a constant of the library
LinkMsg == "m2"       \* imx_get_link_msg(): a constant of the library

\* the message the operation asks to be signed
RequestMessages(o) ==
  CASE o = "connect" -> {SeedMsg}
    [] o = "register_address" -> {LinkMsg}
    [] OTHER -> Messages

\* the description passed to request_signature (arguments left out)
Description(o) ==
  CASE o = "connect" -> "Connect the signing wallet to pyGUMarket."
    [] o = "register_address" -> "Link your wallet to IMX."
    [] o = "sell_nft" -> "Create a sell order for an NFT."
    [] o = "cancel_order" -> "Cancel an active order."
    [] o = "transfer_nft" -> "Transfer an NFT."
    [] o = "transfer_token" -> "Transfer token."
    [] o = "buy_nft" -> "Buy order."

\* the submit call the operation makes on a valid result
SubmitFn(o) ==
  CASE o = "register_address" -> "imx_register_address_presign"
    [] o = "sell_nft" -> "imx_finish_sell_or_offer_nft"
    [] o = "cancel_order" -> "imx_finish_cancel_order"
    [] o = "transfer_nft" -> "imx_finish_transfer"
    [] o = "transfer_token" -> "imx_finish_transfer"
    [] o = "buy_nft" -> "imx_finish_buy_nft"

\* the address a result must carry: str(hex(self.address))
ExpectedAddress(a) == Hex(a)

\* mutant: the message is not compared
Accepts_NoMessageCheck(o, r, m, a) ==
  IF o = "connect" THEN TRUE ELSE r.address = ExpectedAddress(a)

\* mutant: the address is not compared
Accepts_NoAddressCheck(o, r, m, a) == r.message = m

\* mutant: only connect compares the message, the others only the address
Accepts_MessageOnlyAtConnect(o, r, m, a) ==
  IF o = "connect" THEN r.message = m ELSE r.address = ExpectedAddress(a)

\* the condition of the if after finish_signature_request (lines 66, 80, 92, ...)
Accepts(o, r, m, a) ==
  IF o = "connect"
  THEN r.message = m
  ELSE r.message = m /\ r.address = ExpectedAddress(a)

(* ------------------------- queue.Queue -------------------------------- *)
\* mutant: put inserts at the head, so the newest result is taken first
QueuePut_AtHead(q, r) == << r >> \o q

\* Queue.put appends at the tail
QueuePut(q, r) == Append(q, r)
\* Queue.get returns the item at the head ...
QueueFront(q) == Head(q)
\* ... and removes it
QueueRest(q) == Tail(q)

(* ------------------------- caller thread ------------------------------ *)
\* mutant: a server that was shut down is started again, as if leaving
\* run_server removed the global http_server
request_signature_start_AfterStop ==
  IF http_server = 0 \/ thr[http_server] = "stopped"
  THEN \E t \in Threads :
         /\ thr[t] = "unstarted"
         /\ \A u \in Threads : u < t => thr[u] # "unstarted"
         /\ thr' = [thr EXCEPT ![t] = "started"]
  ELSE thr' = thr

\* request_signature, lines 266-268: start the server thread unless the
\* global http_server exists
request_signature_start ==
  IF http_server = 0
  THEN \E t \in Threads :
         /\ thr[t] = "unstarted"
         /\ \A u \in Threads : u < t => thr[u] # "unstarted"
         /\ thr' = [thr EXCEPT ![t] = "started"]
  ELSE thr' = thr

\* The caller enters an operation of imx_web_wallet, obtains the message to
\* sign (lines 61, 75, 86, 98, 109, 121, 133) and calls request_signature,
\* which first looks for the server.
Call(o, m) ==
  /\ pc = "idle"
  /\ g_npub < MaxSessions
  /\ o = "connect" \/ address # -1
  /\ m \in RequestMessages(o)
  /\ request_signature_start
  /\ pc' = "write_message"
  /\ op' = o
  /\ msg' = m
  /\ g_prev' = IF g_prev = m THEN "" ELSE g_prev
  /\ UNCHANGED << result, address, imx_seed, outcome, submits >>
  /\ UNCHANGED << g_npub, g_actPub, g_consumed, g_firstPost >>
  /\ UNCHANGED << g_pending, g_posted >>
  /\ UNCHANGED << http_server, PORT, portOwner, shutdown_request >>
  /\ UNCHANGED << globalVars, handlerVars >>
  /\ resp' = NoResp

imx_web_wallet_init == Call("connect", SeedMsg)
register_address == Call("register_address", LinkMsg)
sell_nft == \E m \in Messages : Call("sell_nft", m)
cancel_order == \E m \in Messages : Call("cancel_order", m)
transfer_nft == \E m \in Messages : Call("transfer_nft", m)
transfer_token == \E m \in Messages : Call("transfer_token", m)
buy_nft == \E m \in Messages : Call("buy_nft", m)

\* the history field pub of a queued result: the publish it was POSTed
\* after, or 0 once a later publish has happened
Older(q) == [i \in DOMAIN q |-> [q[i] EXCEPT !.pub = 0]]

\* request_signature, line 269: message_to_sign = message
request_signature_message ==
  /\ pc = "write_message"
  /\ message_to_sign' = msg
  /\ signature_queue' = Older(signature_queue)
  /\ g_npub' = g_npub + 1
  /\ g_firstPost' = IF signature_queue = <<>> THEN Awaited ELSE NoResult
  /\ pc' = "write_action"
  /\ UNCHANGED << op, msg, result, address, imx_seed, outcome, submits >>
  /\ UNCHANGED << action_to_perform >>
  /\ g_pending' = msg
  /\ UNCHANGED << g_actPub, g_consumed, g_prev, g_posted >>
  /\ UNCHANGED << serverVars, handlerVars >>
  /\ resp' = NoResp

\* request_signature, line 270: action_to_perform = action
request_signature_action ==
  /\ pc = "write_action"
  /\ action_to_perform' = Description(op)
  /\ g_actPub' = g_npub
  /\ pc' = "print"
  /\ UNCHANGED << op, msg, result, address, imx_seed, outcome, submits >>
  /\ UNCHANGED << message_to_sign, signature_queue >>
  /\ UNCHANGED << g_npub, g_consumed, g_firstPost, g_prev >>
  /\ UNCHANGED << g_pending, g_posted >>
  /\ UNCHANGED << serverVars, handlerVars >>
  /\ resp' = NoResp

\* the print of the relay URL reads the global PORT (lines 63, 77, 89, ...):
\* NameError when no server thread has assigned it yet
print_url ==
  /\ pc = "print"
  /\ IF PORT = 0
     THEN pc' = "done" /\ outcome' = "NameError"
     ELSE pc' = "get" /\ outcome' = outcome
  /\ UNCHANGED << op, msg, result, address, imx_seed, submits >>
  /\ UNCHANGED << globalVars, serverVars, handlerVars, ghostVars >>
  /\ resp' = NoResp

\* r was POSTed after the current publish and carries the message of the
\* previous request, which was left without an answer
AnswersPrevious(r) == g_prev # "" /\ r.pub = g_npub /\ r.message = g_prev

\* mutant: a result that carries another message is dropped and the caller
\* goes on waiting
queue_get_SkipMismatch ==
  /\ pc = "get"
  /\ signature_queue # <<>>
  /\ signature_queue' = Tail(signature_queue)
  /\ g_posted' = Tail(g_posted)
  /\ IF Head(signature_queue).message = msg
     THEN /\ result' = Head(signature_queue)
          /\ g_consumed' = g_consumed + 1
          /\ g_prev' = IF AnswersPrevious(result') THEN g_prev ELSE ""
          /\ pc' = "finish"
     ELSE UNCHANGED << result, g_consumed, g_prev, pc >>
  /\ UNCHANGED << op, msg, address, imx_seed, outcome, submits >>
  /\ UNCHANGED << message_to_sign, action_to_perform >>
  /\ UNCHANGED << g_npub, g_actPub, g_firstPost, g_pending >>
  /\ UNCHANGED << serverVars, handlerVars >>
  /\ resp' = NoResp

\* mutant: the get gives up on an empty queue, as get(timeout=...) does,
\* and the operation raises queue.Empty
queue_get_Timeout ==
  /\ pc = "get"
  /\ IF signature_queue = <<>>
     THEN /\ pc' = "done"
          /\ outcome' = "Empty"
          /\ UNCHANGED << result, signature_queue, g_consumed, g_prev >>
          /\ g_posted' = g_posted
     ELSE /\ result' = QueueFront(signature_queue)
          /\ signature_queue' = QueueRest(signature_queue)
          /\ g_posted' = Tail(g_posted)
          /\ g_consumed' = g_consumed + 1
          /\ g_prev' = IF AnswersPrevious(result') THEN g_prev ELSE ""
          /\ pc' = "finish"
          /\ outcome' = outcome
  /\ UNCHANGED << op, msg, address, imx_seed, submits >>
  /\ UNCHANGED << message_to_sign, action_to_perform >>
  /\ UNCHANGED << g_npub, g_actPub, g_firstPost, g_pending >>
  /\ UNCHANGED << serverVars, handlerVars >>
  /\ resp' = NoResp

\* result = signature_queue.get(): blocks while the queue is empty
queue_get ==
  /\ pc = "get"
  /\ signature_queue # <<>>
  /\ result' = QueueFront(signature_queue)
  /\ signature_queue' = QueueRest(signature_queue)
  /\ g_posted' = Tail(g_posted)
  /\ g_consumed' = g_consumed + 1
  /\ g_prev' = IF AnswersPrevious(result') THEN g_prev ELSE ""
  /\ pc' = "finish"
  /\ UNCHANGED << op, msg, address, imx_seed, outcome, submits >>
  /\ UNCHANGED << message_to_sign, action_to_perform >>
  /\ UNCHANGED << g_npub, g_actPub, g_firstPost, g_pending >>
  /\ UNCHANGED << serverVars, handlerVars >>
  /\ resp' = NoResp

\* mutant: message_to_sign is not declared global either, so nothing is
\* cleared
finish_signature_request_KeepsMessage ==
  /\ message_to_sign' = message_to_sign
  /\ action_to_perform' = action_to_perform

\* finish_signature_request, lines 272-275: message_to_sign is declared
\* global and cleared; action_to_perform is not declared global, so the
\* assignment of line 275 binds a local and the global keeps its value
finish_signature_request ==
  /\ message_to_sign' = ""
  /\ action_to_perform' = action_to_perform

\* mutant: the submit call is made before the result is checked
validate_SubmitBeforeCheck ==
  /\ IF op = "connect"
     THEN submits' = submits
     ELSE submits' = Append(submits,
              [fn |-> SubmitFn(op), seed |-> imx_seed,
               signature |-> result.signature])
  /\ IF Accepts(op, result, msg, address)
     THEN /\ outcome' = "returned"
          /\ IF op = "connect"
             THEN /\ address' = ParseHex(result.address)
                  /\ imx_seed' = ParseHex(result.signature)
             ELSE UNCHANGED << address, imx_seed >>
     ELSE /\ outcome' = "AssertionError"
          /\ UNCHANGED << address, imx_seed >>

\* mutant: the seed signature is passed where the result's signature belongs
validate_SeedAsSignature ==
  IF Accepts(op, result, msg, address)
  THEN /\ outcome' = "returned"
       /\ IF op = "connect"
          THEN /\ address' = ParseHex(result.address)
               /\ imx_seed' = ParseHex(result.signature)
               /\ submits' = submits
          ELSE /\ submits' = Append(submits,
                     [fn |-> SubmitFn(op), seed |-> imx_seed,
                      signature |-> Hex(imx_seed)])
               /\ UNCHANGED << address, imx_seed >>
  ELSE /\ outcome' = "AssertionError"
       /\ UNCHANGED << address, imx_seed, submits >>

\* the if/else that ends every operation: on a valid result connect stores
\* address and seed (lines 67-68), the other operations make their submit
\* call (lines 81, 93, 104, 116, 128, 140); otherwise AssertionError
validate ==
  IF Accepts(op, result, msg, address)
  THEN /\ outcome' = "returned"
       /\ IF op = "connect"
          THEN /\ address' = ParseHex(result.address)
               /\ imx_seed' = ParseHex(result.signature)
               /\ submits' = submits
          ELSE /\ submits' = Append(submits,
                     [fn |-> SubmitFn(op), seed |-> imx_seed,
                      signature |-> result.signature])
               /\ UNCHANGED << address, imx_seed >>
  ELSE /\ outcome' = "AssertionError"
       /\ UNCHANGED << address, imx_seed, submits >>

\* the caller's step after the get: finish_signature_request() and then the
\* if/else, which reads only the caller's own data
finish_and_validate ==
  /\ pc = "finish"
  /\ finish_signature_request
  /\ validate
  /\ pc' = "done"
  /\ UNCHANGED << op, msg, result >>
  /\ g_pending' = ""
  /\ UNCHANGED << signature_queue >>
  /\ UNCHANGED << g_npub, g_actPub, g_consumed, g_firstPost, g_prev, g_posted >>
  /\ UNCHANGED << serverVars, handlerVars >>
  /\ resp' = NoResp

\* the operation returns or raises to its caller: its locals are gone
op_return ==
  /\ pc = "done"
  /\ pc' = "idle"
  /\ op' = "none"
  /\ msg' = ""
  /\ result' = NoResult
  /\ outcome' = "none"
  /\ submits' = <<>>
  /\ g_consumed' = 0
  /\ g_firstPost' = NoResult
  /\ g_prev' = IF g_consumed = 1 /\ result.pub < g_npub THEN msg ELSE ""
  /\ UNCHANGED << address, imx_seed, g_npub, g_actPub, g_pending, g_posted >>
  /\ UNCHANGED << globalVars, serverVars, handlerVars >>
  /\ resp' = NoResp

\* mutant: shutdown() is called without looking for the global, which
\* raises NameError while no server has assigned it
shutdown_server_NoCheck ==
  /\ pc = "idle"
  /\ IF http_server = 0
     THEN /\ pc' = "shutdown_done"
          /\ outcome' = "NameError"
          /\ shutdown_request' = shutdown_request
     ELSE IF thr[http_server] = "stopped"
     THEN /\ pc' = "shutdown_done"
          /\ outcome' = outcome
          /\ shutdown_request' = shutdown_request
     ELSE /\ shutdown_request' = shutdown_request \cup {http_server}
          /\ outcome' = outcome
          /\ pc' = "shutdown_wait"
  /\ UNCHANGED << op, msg, result, address, imx_seed, submits >>
  /\ UNCHANGED << http_server, PORT, thr, portOwner >>
  /\ UNCHANGED << globalVars, handlerVars, ghostVars >>
  /\ resp' = NoResp

\* shutdown_server, lines 257-260: http_server.shutdown() when the global
\* exists; shutdown() sets the request flag and waits for the serve loop,
\* which has nothing to wait for when that loop has already ended.  Without
\* the global the function returns at once.
shutdown_server ==
  /\ pc = "idle"
  /\ IF http_server = 0 \/ thr[http_server] = "stopped"
     THEN pc' = "shutdown_done" /\ shutdown_request' = shutdown_request
     ELSE /\ shutdown_request' = shutdown_request \cup {http_server}
          /\ pc' = "shutdown_wait"
  /\ UNCHANGED << op, msg, result, address, imx_seed, outcome, submits >>
  /\ UNCHANGED << http_server, PORT, thr, portOwner >>
  /\ UNCHANGED << globalVars, handlerVars, ghostVars >>
  /\ resp' = NoResp

\* shutdown_server returns: at once when there was nothing to stop, else
\* once serve_forever has ended
shutdown_return ==
  /\ \/ pc = "shutdown_done"
     \/ pc = "shutdown_wait" /\ thr[http_server] = "stopped"
  /\ pc' = "idle"
  /\ UNCHANGED << op, msg, result, address, imx_seed, outcome, submits >>
  /\ UNCHANGED << globalVars, serverVars, handlerVars, ghostVars >>
  /\ resp' = NoResp


(* ------------------------- server thread ------------------------------ *)
\* run_server, line 246: PORT = 8080
run_server_port(t) ==
  /\ thr[t] = "started"
  /\ PORT' = 8080
  /\ thr' = [thr EXCEPT ![t] = "port_set"]
  /\ resp' = NoResp
  /\ UNCHANGED << http_server, portOwner, shutdown_request >>
  /\ UNCHANGED << globalVars, handlerVars, callerVars, ghostVars >>

\* run_server, line 250: TCPServer(("", PORT), Handler) binds the port and
\* the with statement assigns the global http_server; the constructor raises
\* OSError and the thread ends when the port is taken
run_server_bind(t) ==
  /\ thr[t] = "port_set"
  /\ IF portOwner = 0
     THEN /\ portOwner' = t
          /\ http_server' = t
          /\ thr' = [thr EXCEPT ![t] = "serving"]
     ELSE /\ thr' = [thr EXCEPT ![t] = "failed"]
          /\ UNCHANGED << portOwner, http_server >>
  /\ resp' = NoResp
  /\ UNCHANGED << PORT, shutdown_request >>
  /\ UNCHANGED << globalVars, handlerVars, callerVars, ghostVars >>

\* run_server, lines 253-255: serve_forever ends once shutdown was requested
\* and no request is being handled; leaving the with block closes the socket
serve_forever_exit(t) ==
  /\ thr[t] = "serving"
  /\ t \in shutdown_request
  /\ hpc = "idle"
  /\ thr' = [thr EXCEPT ![t] = "stopped"]
  /\ portOwner' = 0
  /\ shutdown_request' = shutdown_request \ {t}
  /\ resp' = NoResp
  /\ UNCHANGED << http_server, PORT >>
  /\ UNCHANGED << globalVars, handlerVars, callerVars, ghostVars >>

\* variant: the server shares the caller's thread and takes no request
\* while the caller is blocked in signature_queue.get()
Serving_OnCallerThread ==
  /\ portOwner # 0
  /\ thr[portOwner] = "serving"
  /\ portOwner \notin shutdown_request
  /\ hpc = "idle"
  /\ pc # "get"

\* serve_forever takes the next request: a server is serving, it is not being
\* shut down and its handler is free (TCPServer handles one request at a time)
Serving ==
  /\ portOwner # 0
  /\ thr[portOwner] = "serving"
  /\ portOwner \notin shutdown_request
  /\ hpc = "idle"

Response(p, k, t, a, m) ==
  [path |-> p, kind |-> k, text |-> t, actPub |-> a, msgPub |-> m]

\* the publish that wrote the message now stored (0: none)
MsgPub == IF message_to_sign = "" THEN 0 ELSE g_npub

\* do_GET, lines 228-231: any other path gets the signing page
do_GET_page ==
  /\ Serving
  /\ resp' = Response("/", "page", "HTML_CONTENT", 0, 0)
  /\ UNCHANGED << globalVars, serverVars, handlerVars, callerVars, ghostVars >>

\* do_GET, lines 215-218: /message returns message_to_sign
do_GET_message ==
  /\ Serving
  /\ resp' = Response("/message", "message", message_to_sign, 0, MsgPub)
  /\ UNCHANGED << globalVars, serverVars, handlerVars, callerVars, ghostVars >>

\* do_GET, line 222: action_text = action_to_perform
do_GET_action_read ==
  /\ Serving
  /\ action_text' = action_to_perform
  /\ g_obs' = g_actPub
  /\ hpc' = "action_len"
  /\ resp' = NoResp
  /\ UNCHANGED << globalVars, serverVars, callerVars, ghostVars >>

FallbackText == "No message available for signing"

\* do_GET, lines 223-227: the test of len(message_to_sign), then the test of
\* len(action_text); the description is written unless one of them is 0
do_GET_action_len ==
  /\ hpc = "action_len"
  /\ IF message_to_sign = ""
     THEN /\ resp' = Response("/action", "fallback", FallbackText, g_obs, 0)
          /\ hpc' = "idle" /\ action_text' = "" /\ g_obs' = 0
     ELSE IF action_text = ""
     THEN /\ resp' = NoResp
          /\ hpc' = "action_format"
          /\ UNCHANGED << action_text, g_obs >>
     ELSE /\ resp' = Response("/action", "description", action_text, g_obs, MsgPub)
          /\ hpc' = "idle" /\ action_text' = "" /\ g_obs' = 0
  /\ UNCHANGED << globalVars, serverVars, callerVars, ghostVars >>

\* do_GET, line 226: the generated text reads message_to_sign once more
do_GET_action_format ==
  /\ hpc = "action_format"
  /\ resp' = Response("/action", "generated", message_to_sign, g_obs, MsgPub)
  /\ hpc' = "idle" /\ action_text' = "" /\ g_obs' = 0
  /\ UNCHANGED << globalVars, serverVars, callerVars, ghostVars >>

\* the result as it sits in the queue: the parsed body and, as history,
\* the publish it was POSTed after
Queued(data) ==
  [address |-> data["address"], message |-> data["message"],
   signature |-> data["signature"], pub |-> g_npub]

\* mutant: a result is dropped, though answered with 200, while no message
\* is pending
do_POST_OnlyWhenPending(b, cap) ==
  /\ Serving
  /\ Len(signature_queue) < cap
  /\ IF WellFormed(b) /\ message_to_sign # ""
     THEN /\ signature_queue' = QueuePut(signature_queue, Queued(json_loads(b)))
          /\ g_posted' = Append(g_posted, b)
          /\ g_firstPost' =
               IF pc \in {"write_action", "print", "get"} /\ g_firstPost = Awaited
               THEN IF Accepts(op, Queued(json_loads(b)), msg, address)
                    THEN Queued(json_loads(b))
                    ELSE NoResult
               ELSE g_firstPost
          /\ resp' = Response("/signature", "200", "", 0, 0)
     ELSE /\ resp' = Response("/signature",
                      IF WellFormed(b) THEN "200" ELSE "JSONDecodeError", "", 0, 0)
          /\ UNCHANGED << signature_queue, g_posted, g_firstPost >>
  /\ UNCHANGED << message_to_sign, action_to_perform >>
  /\ UNCHANGED << g_npub, g_actPub, g_consumed, g_prev, g_pending >>
  /\ UNCHANGED << serverVars, handlerVars, callerVars >>

\* do_POST, lines 233-240, with a result channel that holds up to cap
\* results: the body is parsed, put on signature_queue and status 200 is
\* sent with no body.  json.loads raises on a body it cannot parse: the
\* handler ends there, the server logs the error and closes the connection
\* without a response, and nothing is put on the queue.
do_POST(b, cap) ==
  /\ Serving
  /\ Len(signature_queue) < cap
  /\ IF WellFormed(b)
     THEN /\ signature_queue' = QueuePut(signature_queue, Queued(json_loads(b)))
          /\ g_posted' = Append(g_posted, b)
          /\ g_firstPost' =
               IF pc \in {"write_action", "print", "get"} /\ g_firstPost = Awaited
               THEN IF Accepts(op, Queued(json_loads(b)), msg, address)
                    THEN Queued(json_loads(b))
                    ELSE NoResult
               ELSE g_firstPost
          /\ resp' = Response("/signature", "200", "", 0, 0)
     ELSE /\ resp' = Response("/signature", "JSONDecodeError", "", 0, 0)
          /\ UNCHANGED << signature_queue, g_posted, g_firstPost >>
  /\ UNCHANGED << message_to_sign, action_to_perform >>
  /\ UNCHANGED << g_npub, g_actPub, g_consumed, g_prev, g_pending >>
  /\ UNCHANGED << serverVars, handlerVars, callerVars >>

(* --------------------------- specification ---------------------------- *)
\* the handler has written its response and returns; the server is free for
\* the next request
response_sent ==
  /\ resp # NoResp
  /\ resp' = NoResp
  /\ UNCHANGED << globalVars, serverVars, handlerVars, callerVars, ghostVars >>
  /\ UNCHANGED << request, keyVars >>

\* the steps of the caller thread, the server threads and the handler
Step ==
  \/ imx_web_wallet_init
  \/ register_address
  \/ sell_nft
  \/ cancel_order
  \/ transfer_nft
  \/ transfer_token
  \/ buy_nft
  \/ request_signature_message
  \/ request_signature_action
  \/ print_url
  \/ queue_get
  \/ finish_and_validate
  \/ op_return
  \/ shutdown_server
  \/ shutdown_return
  \/ \E t \in Threads : run_server_port(t)
  \/ \E t \in Threads : run_server_bind(t)
  \/ \E t \in Threads : serve_forever_exit(t)
  \/ do_GET_page
  \/ do_GET_message
  \/ do_GET_action_read
  \/ do_GET_action_len
  \/ do_GET_action_format
  \/ \E b \in Bodies : do_POST(b, MaxQueue)

\* A response stays in resp for one step only: the step after it is
\* response_sent.  That step changes nothing another thread reads, so a step
\* of another thread taken before it leads to the same state as taken after.
\* Here a request is accepted and handled in one step of do_GET or do_POST,
\* so request stays empty (SpecLive below separates the two).
Next ==
  \/ resp = NoResp /\ Step /\ UNCHANGED << request, keyVars >>
  \/ response_sent

Spec == Init /\ [][Next]_vars

\* The result channel under load: queue.Queue() is unbounded (line 144), and
\* this specification lets one more result wait in it than Spec does.  To
\* keep that affordable it runs connect and cancel_order only, with the
\* server started and never shut down, and the browser only POSTing.
MaxBacklog == MaxQueue + 1

StepOrder ==
  \/ imx_web_wallet_init
  \/ cancel_order
  \/ request_signature_message
  \/ request_signature_action
  \/ print_url
  \/ queue_get
  \/ finish_and_validate
  \/ op_return
  \/ \E t \in Threads : run_server_port(t)
  \/ \E t \in Threads : run_server_bind(t)
  \/ \E b \in Bodies : do_POST(b, MaxBacklog)

NextOrder ==
  \/ resp = NoResp /\ StepOrder /\ UNCHANGED << request, keyVars >>
  \/ response_sent

SpecOrder == Init /\ [][NextOrder]_vars

\* The server thread under fair scheduling.  serve_forever (line 253) takes
\* one request at a time: accept_GET is the request line read by the handler,
\* answer_GET the steps of do_GET for it, and no other request is taken
\* before the response is written.  The caller runs connect and cancel_order
\* and never shuts the server down; the browser GETs at any time and POSTs a
\* result when none is waiting in the queue.
Paths == {"/", "/message", "/action"}

accept_GET(p) ==
  /\ Serving
  /\ request = NoRequest
  /\ request' = [path |-> p, pub |-> IF pc = "get" THEN g_npub ELSE 0]
  /\ UNCHANGED resp
  /\ UNCHANGED << globalVars, serverVars, handlerVars, callerVars, ghostVars >>

answer_GET ==
  /\ request # NoRequest
  /\ \/ request.path = "/" /\ do_GET_page
     \/ request.path = "/message" /\ do_GET_message
     \/ request.path = "/action" /\ do_GET_action_read
     \/ request.path = "/action" /\ do_GET_action_len
     \/ request.path = "/action" /\ do_GET_action_format
  /\ request' = IF resp' # NoResp THEN NoRequest ELSE request

handle_POST ==
  /\ request = NoRequest
  /\ signature_queue = <<>>
  /\ \E b \in Bodies : do_POST(b, MaxQueue)
  /\ UNCHANGED request

StepCaller ==
  \/ imx_web_wallet_init
  \/ cancel_order
  \/ request_signature_message
  \/ request_signature_action
  \/ print_url
  \/ queue_get
  \/ finish_and_validate
  \/ op_return

ServerThread ==
  \/ UNCHANGED request /\ \E t \in Threads : run_server_port(t)
  \/ UNCHANGED request /\ \E t \in Threads : run_server_bind(t)
  \/ answer_GET

ServerStep == resp = NoResp /\ ServerThread /\ UNCHANGED keyVars

NextLive ==
  \/ resp = NoResp /\ StepCaller /\ UNCHANGED << request, keyVars >>
  \/ ServerStep
  \/ resp = NoResp /\ UNCHANGED keyVars /\ \E p \in Paths : accept_GET(p)
  \/ resp = NoResp /\ UNCHANGED keyVars /\ handle_POST
  \/ response_sent

\* the operating system schedules the server thread: a step it can take is
\* eventually taken.  Nothing obliges the browser to send a request or the
\* caller to start an operation.
SpecLive ==
  /\ Init /\ [][NextLive]_vars
  /\ WF_vars(ServerStep)
  /\ WF_vars(response_sent)


(* ---------------------- key_loader.py: the cipher --------------------- *)
\* Byte strings are sequences of numbers 0..255.  The three library
\* primitives the vault is built on keep their contract and get a small
\* body: PBKDF2 is a deterministic function of password and salt, the AES
\* block operation is a permutation of blocks chosen by the key, and base64
\* is the real encoding over the values 0..63 of its alphabet (64 is '=').
BlockSize == 16       \* AES.block_size
KeyLen == 32          \* dkLen of PBKDF2 (line 24)

Repeat(b, n) == [i \in 1 .. n |-> b]

RECURSIVE SumBytes(_)
SumBytes(s) == IF s = << >> THEN 0 ELSE Head(s) + SumBytes(Tail(s))

RECURSIVE Xor(_, _)
Xor(a, b) ==
  IF a = 0 THEN b
  ELSE IF b = 0 THEN a
  ELSE ((a + b) % 2) + 2 * Xor(a \div 2, b \div 2)

XorBytes(x, y) == [i \in 1 .. Len(x) |-> Xor(x[i], y[i])]

\* Python slices: data[:n] and data[n:] for n >= 0, data[-n:] and data[:-n]
\* for the n of decrypt.  -0 is 0, so data[-0:] is all of data and data[:-0]
\* is empty; an index before the start is the start.
Min(a, b) == IF a < b THEN a ELSE b
Max(a, b) == IF a > b THEN a ELSE b
SliceTo(data, n) == SubSeq(data, 1, Min(n, Len(data)))
SliceFrom(data, n) == SubSeq(data, Min(n, Len(data)) + 1, Len(data))
SliceFromLast(data, n) ==
  IF n = 0 THEN data ELSE SliceFrom(data, Max(Len(data) - n, 0))
SliceToLast(data, n) ==
  IF n = 0 THEN << >> ELSE SliceTo(data, Max(Len(data) - n, 0))

\* password.encode("utf-8") for the letters the passwords are made of
Utf8(c) == CASE c = "a" -> 97 [] c = "b" -> 98 [] c = "p" -> 112
encode(password) == [i \in 1 .. Len(password) |-> Utf8(password[i])]

\* PBKDF2(password, salt, dkLen, count)
PBKDF2(password, salt, dkLen) ==
  [i \in 1 .. dkLen |-> (SumBytes(password) + salt[((i - 1) % Len(salt)) + 1] + i) % 256]

\* get_encryption_key, line 24
get_encryption_key(password, salt) == PBKDF2(encode(password), salt, KeyLen)

\* the block operation of AES.new(key, ...) and its inverse
AES_encrypt_block(key, b) == [i \in 1 .. BlockSize |-> (b[i] + key[i]) % 256]
AES_decrypt_block(key, c) == [i \in 1 .. BlockSize |-> (c[i] + 256 - key[i]) % 256]

\* AES.new(key, AES.MODE_CBC, nonce).encrypt(data): each block is XORed with
\* the ciphertext block before it (the nonce for the first) and encrypted
RECURSIVE CBC_encrypt(_, _, _)
CBC_encrypt(key, chain, data) ==
  IF data = << >> THEN << >>
  ELSE LET c == AES_encrypt_block(key, XorBytes(SliceTo(data, BlockSize), chain))
       IN c \o CBC_encrypt(key, c, SliceFrom(data, BlockSize))

\* AES.new(key, AES.MODE_CBC, nonce).decrypt(data)
RECURSIVE CBC_decrypt(_, _, _)
CBC_decrypt(key, chain, data) ==
  IF data = << >> THEN << >>
  ELSE LET c == SliceTo(data, BlockSize)
       IN XorBytes(AES_decrypt_block(key, c), chain)
            \o CBC_decrypt(key, c, SliceFrom(data, BlockSize))

\* b64encode: three bytes make four characters; one or two bytes left over
\* make two or three characters and the rest of the four is '='
RECURSIVE b64encode(_)
b64encode(s) ==
  IF s = << >> THEN << >>
  ELSE IF Len(s) = 1
  THEN << s[1] \div 4, (s[1] % 4) * 16, 64, 64 >>
  ELSE IF Len(s) = 2
  THEN << s[1] \div 4, (s[1] % 4) * 16 + s[2] \div 16, (s[2] % 16) * 4, 64 >>
  ELSE << s[1] \div 4, (s[1] % 4) * 16 + s[2] \div 16,
          (s[2] % 16) * 4 + s[3] \div 64, s[3] % 64 >> \o b64encode(SliceFrom(s, 3))

\* b64decode: four characters make three bytes, fewer where '=' stands
RECURSIVE b64decode(_)
b64decode(t) ==
  IF t = << >> THEN << >>
  ELSE LET b1 == t[1] * 4 + t[2] \div 16
           b2 == (t[2] % 16) * 16 + t[3] \div 4
           b3 == (t[3] % 4) * 64 + t[4]
       IN IF t[3] = 64 THEN << b1 >>
          ELSE IF t[4] = 64 THEN << b1, b2 >>
          ELSE << b1, b2, b3 >> \o b64decode(SliceFrom(t, 4))

\* variant: data that already fills whole blocks gets no padding
encrypt_NoPadWhenAligned(data, key, nonce) ==
  LET pad_len == (BlockSize - (Len(data) % BlockSize)) % BlockSize
      raw_data == data \o Repeat(pad_len, pad_len)
  IN b64encode(nonce \o CBC_encrypt(key, nonce, raw_data))

\* variant: encrypt ignores the bytes it drew and uses a fixed vector
encrypt_FixedVector(data, key, nonce) ==
  LET pad_len == BlockSize - (Len(data) % BlockSize)
      raw_data == data \o Repeat(pad_len, pad_len)
      zero == Repeat(0, BlockSize)
  IN b64encode(zero \o CBC_encrypt(key, zero, raw_data))

\* encrypt, lines 39-45; nonce is what Random.new().read(AES.block_size) drew
encrypt(data, key, nonce) ==
  LET pad_len == BlockSize - (Len(data) % BlockSize)
      raw_data == data \o Repeat(pad_len, pad_len)
  IN b64encode(nonce \o CBC_encrypt(key, nonce, raw_data))

\* the bytes decrypt works on, lines 60-63
Decrypted(data, key) ==
  LET data_enc == b64decode(data)
  IN CBC_decrypt(key, SliceTo(data_enc, BlockSize), SliceFrom(data_enc, BlockSize))

\* variant: a last byte of 0 means no padding
decrypt_ZeroIsNoPadding(data, key) ==
  LET dec == Decrypted(data, key)
      pad_len == dec[Len(dec)]
  IN IF pad_len = 0 THEN Return(dec)
     ELSE IF SliceFromLast(dec, pad_len) # Repeat(pad_len, pad_len)
     THEN Raise("ValueError")
     ELSE Return(SliceToLast(dec, pad_len))

\* decrypt, lines 60-68; data[-1] of an empty byte string raises IndexError
decrypt(data, key) ==
  LET dec == Decrypted(data, key)
      pad_len == dec[Len(dec)]
  IN IF dec = << >> THEN Raise("IndexError")
     ELSE IF SliceFromLast(dec, pad_len) # Repeat(pad_len, pad_len)
     THEN Raise("ValueError")
     ELSE Return(SliceToLast(dec, pad_len))

\* what the cipher is called with: passwords, the bytes Random.new().read
\* may return for a salt (32 bytes) and for a nonce (16 bytes), and data of
\* length 0, 1, 15, 16, 17 and 32
SaltLen == 32         \* Random.new().read(32), line 81
Passwords == { << "a" >>, << "b" >>, << "p" >> }
Salts == { Repeat(7, SaltLen), [i \in 1 .. SaltLen |-> (5 * i) % 256] }
Nonces == { [i \in 1 .. BlockSize |-> i], [i \in 1 .. BlockSize |-> 255 - 3 * i] }
Plaintexts == { << >>, << 7 >>, [i \in 1 .. 15 |-> i], Repeat(16, 16),
                [i \in 1 .. 17 |-> 2 * i], [i \in 1 .. 32 |-> 250 - i] }
CipherKeys == { get_encryption_key(<< "a" >>, s) : s \in Salts }

\* byte strings that do not come from encrypt, as decrypt may find them
\* after decryption: whole blocks, the last byte n being 0, 1, 2, 16, 17
\* or 200, with and without n bytes n before the end
Foreign ==
  { Repeat(16, 16), Repeat(17, 16), Repeat(5, 15) \o << 0 >>,
    Repeat(5, 15) \o << 1 >>, Repeat(5, 14) \o << 2, 2 >>,
    Repeat(5, 14) \o << 3, 2 >>, Repeat(9, 31) \o << 200 >>,
    Repeat(9, 15) \o Repeat(17, 17), Repeat(9, 16) \o Repeat(17, 16) }

\* a call of encrypt
encrypt_call ==
  \E d \in Plaintexts, k \in CipherKeys, n \in Nonces :
    /\ call' = [fn |-> "encrypt", data |-> d, key |-> k, nonce |-> n]
    /\ ret' = Return(encrypt(d, k, n))
    /\ prev' = [call |-> call, ret |-> ret]
    /\ UNCHANGED << files, ppc, choice, eth_priv, g_saved, g_failed >>

\* a call of decrypt on what the encrypt before it returned
decrypt_call ==
  \E k \in CipherKeys :
    /\ call.fn = "encrypt"
    /\ call' = [fn |-> "decrypt", data |-> ret.value, key |-> k, nonce |-> << >>]
    /\ ret' = decrypt(ret.value, k)
    /\ prev' = [call |-> call, ret |-> ret]
    /\ UNCHANGED << files, ppc, choice, eth_priv, g_saved, g_failed >>

\* a call of decrypt on data that decrypts to one of the foreign strings
decrypt_foreign ==
  \E f \in Foreign, k \in CipherKeys :
    LET n == [i \in 1 .. BlockSize |-> i]
        data == b64encode(n \o CBC_encrypt(k, n, f))
    IN /\ call' = [fn |-> "decrypt", data |-> data, key |-> k, nonce |-> << >>]
       /\ ret' = decrypt(data, k)
       /\ prev' = [call |-> call, ret |-> ret]
       /\ UNCHANGED << files, ppc, choice, eth_priv, g_saved, g_failed >>

NextCipher ==
  \/ encrypt_call /\ UNCHANGED relayVars
  \/ decrypt_call /\ UNCHANGED relayVars
  \/ decrypt_foreign /\ UNCHANGED relayVars

SpecCipher == Init /\ [][NextCipher]_vars

(* ---------------------- key_loader.py: the vault ---------------------- *)
\* A Python int is the sequence of its base-256 digits, most significant
\* first and without leading zeros (0 is the empty sequence), so that keys
\* of 256 bits fit.
EthKeys == { << 18, 52 >>, [i \in 1 .. 32 |-> (200 + 7 * i) % 256] }

\* variant: the zero bytes that fill the length come after the digits
to_bytes_FillAfter(n, length) == n \o Repeat(0, length - Len(n))

\* int.to_bytes(length, "big"), for an int of at most length digits
to_bytes(n, length) == Repeat(0, length - Len(n)) \o n

\* int.from_bytes(b, "big")
RECURSIVE from_bytes(_)
from_bytes(b) ==
  IF b = << >> THEN << >>
  ELSE IF Head(b) = 0 THEN from_bytes(Tail(b))
  ELSE b

\* IMXlib.eth_get_address: the address is computed by the native library;
\* here it is a value that names the key it belongs to
eth_get_address(eth_key) == << "address", eth_key >>

\* f"wallet_{hex(address)}.wlt", line 83
file_name(addr) == << "wallet_", addr, ".wlt" >>

\* a wallet file holds what pickle.dump wrote, in that order (lines 84-86)
FileOf(name) == CHOOSE f \in files : f.name = name

\* variant: the address is taken from the end of the file
load_wallet_address_LastField(content) == content[Len(content)]

\* load_wallet_address, lines 99-101: the first pickle.load
load_wallet_address(content) == content[1]

\* load_wallet, lines 114-119: the second and third pickle.load, the key
\* derived from the password, decrypt and int.from_bytes
load_wallet_result(content, password) ==
  LET salt == content[2]
      enc_data == content[3]
      enc_key == get_encryption_key(password, salt)
      decrypted == decrypt(enc_data, enc_key)
  IN IF decrypted.raised # "" THEN decrypted
     ELSE Return(from_bytes(decrypted.value))

\* what save_wallet leaves in the directory, lines 80-86: open(..., "wb")
\* replaces a file of the same name
Written(eth_key, password, salt, nonce) ==
  LET addr == eth_get_address(eth_key)
      enc_data == encrypt(to_bytes(eth_key, KeyLen),
                          get_encryption_key(password, salt), nonce)
      name == file_name(addr)
  IN { f \in files : f.name # name }
       \cup { [name |-> name, content |-> << addr, salt, enc_data >>] }

Saved(eth_key, password) ==
  LET name == file_name(eth_get_address(eth_key))
  IN { g \in g_saved : g.name # name }
       \cup { [name |-> name, key |-> eth_key, password |-> password] }

\* save_wallet called by the program
save_wallet ==
  /\ ppc = "idle"
  /\ \E k \in EthKeys, p \in Passwords, s \in Salts, n \in Nonces :
       /\ files' = Written(k, p, s, n)
       /\ g_saved' = Saved(k, p)
       /\ call' = [fn |-> "save_wallet", eth_key |-> k, password |-> p]
  /\ ret' = Return(<< >>)
  /\ UNCHANGED << prev, ppc, choice, eth_priv, g_failed >>

\* load_wallet_address called on a wallet file
load_wallet_address_call ==
  /\ ppc = "idle"
  /\ \E f \in files :
       /\ call' = [fn |-> "load_wallet_address", file |-> f.name]
       /\ ret' = Return(load_wallet_address(f.content))
  /\ UNCHANGED << prev, files, g_saved, ppc, choice, eth_priv, g_failed >>

\* load_wallet called on a wallet file with some password
load_wallet ==
  /\ ppc = "idle"
  /\ \E f \in files, p \in Passwords :
       /\ call' = [fn |-> "load_wallet", file |-> f.name, password |-> p]
       /\ ret' = load_wallet_result(f.content, p)
  /\ UNCHANGED << prev, files, g_saved, ppc, choice, eth_priv, g_failed >>

\* prompt_load_wallet, lines 128-144 and 162: the wallets are listed and an
\* existing one is chosen
prompt_choose_wallet ==
  /\ ppc = "idle"
  /\ \E f \in files : choice' = f.name
  /\ ppc' = "password"
  /\ eth_priv' = NoValue
  /\ g_failed' = 0
  /\ UNCHANGED << call, ret, prev, files, g_saved >>

\* prompt_load_wallet, lines 146-161: "Add new wallet" is chosen, a key and a
\* password are entered, the wallet is saved and its key is the result
prompt_new_wallet ==
  /\ ppc = "idle"
  /\ \E k \in EthKeys, p \in Passwords, s \in Salts, n \in Nonces :
       /\ files' = Written(k, p, s, n)
       /\ g_saved' = Saved(k, p)
       /\ call' = [fn |-> "save_wallet", eth_key |-> k, password |-> p]
       /\ eth_priv' = Return(k)
  /\ ret' = Return(<< >>)
  /\ ppc' = "returned"
  /\ g_failed' = 0
  /\ UNCHANGED << prev, choice >>

\* variant: the prompt gives up after a failed attempt
prompt_password_GivesUp ==
  /\ ppc = "password"
  /\ \E p \in Passwords :
       LET r == load_wallet_result(FileOf(choice).content, p)
       IN /\ call' = [fn |-> "load_wallet", file |-> choice, password |-> p]
          /\ ret' = r
          /\ eth_priv' = IF r.raised = "" THEN r ELSE eth_priv
          /\ ppc' = "returned"
          /\ g_failed' = IF r.raised = "" THEN g_failed
                         ELSE Min(g_failed + 1, MaxAttempts)
  /\ UNCHANGED << prev, files, g_saved, choice >>

\* prompt_load_wallet, lines 163-170: one pass of the while loop.  A
\* ValueError is caught and the loop goes on; any other exception leaves
\* the function
prompt_password ==
  /\ ppc = "password"
  /\ \E p \in Passwords :
       LET r == load_wallet_result(FileOf(choice).content, p)
       IN /\ call' = [fn |-> "load_wallet", file |-> choice, password |-> p]
          /\ ret' = r
          /\ eth_priv' = IF r.raised = "" THEN r ELSE eth_priv
          /\ ppc' = IF r.raised = "" THEN "returned"
                    ELSE IF r.raised = "ValueError" THEN "password"
                    ELSE "raised"
          /\ g_failed' = IF r.raised = "ValueError"
                         THEN Min(g_failed + 1, MaxAttempts) ELSE g_failed
  /\ UNCHANGED << prev, files, g_saved, choice >>

\* prompt_load_wallet, line 172: return eth_priv; the locals end with the call
prompt_return ==
  /\ ppc \in {"returned", "raised"}
  /\ ppc' = "idle"
  /\ choice' = << >>
  /\ eth_priv' = NoValue
  /\ g_failed' = 0
  /\ UNCHANGED << call, ret, prev, files, g_saved >>

NextVault ==
  \/ save_wallet /\ UNCHANGED relayVars
  \/ load_wallet_address_call /\ UNCHANGED relayVars
  \/ load_wallet /\ UNCHANGED relayVars
  \/ prompt_choose_wallet /\ UNCHANGED relayVars
  \/ prompt_new_wallet /\ UNCHANGED relayVars
  \/ prompt_password /\ UNCHANGED relayVars
  \/ prompt_return /\ UNCHANGED relayVars

SpecVault == Init /\ [][NextVault]_vars

(* ------------------------------ claims -------------------------------- *)
\* the consumed result matches the request as the operation requires
Matches ==
  /\ result.message = msg
  /\ op # "connect" => result.address = ExpectedAddress(address)

\* C1: in every signing operation a consumed result whose message differs
\* from the published message ends the operation with the validation error;
\* no submit call is made and the wallet's address and seed are not set
\* from it.
C1_MessageMismatchRejected ==
  [][ (pc = "finish" /\ pc' # "finish" /\ result.message # msg)
        => /\ outcome' = "AssertionError"
           /\ submits' = <<>>
           /\ address' = address
           /\ imx_seed' = imx_seed ]_vars

C1_Witness ==
  /\ pc = "done"
  /\ op = "sell_nft"
  /\ result.message # msg
  /\ result.address = ExpectedAddress(address)
  /\ outcome = "AssertionError"

\* C2: in every operation other than connect a consumed result is accepted
\* exactly when its message is the published one and its address is the
\* wallet's address in hex; a matching message with another address raises
\* the validation error.
C2_AddressMismatchRejected ==
  [][ (pc = "finish" /\ pc' # "finish" /\ op # "connect")
        => /\ (outcome' = "returned")
                <=> (result.message = msg
                       /\ result.address = ExpectedAddress(address))
           /\ outcome' \in {"returned", "AssertionError"} ]_vars

C2_Witness ==
  /\ pc = "done"
  /\ op = "cancel_order"
  /\ result.message = msg
  /\ result.address # ExpectedAddress(address)
  /\ ParseHex(result.address) # address
  /\ outcome = "AssertionError"

\* C3: an operation makes at most one submit call, it is the call of that
\* operation, it is made only after exactly one result was consumed and
\* passed validation, and it carries that result's signature; an operation
\* that fails validation has made no submit call.
C3_SubmitOnlyAfterValidation ==
  /\ Len(submits) <= 1
  /\ submits # <<>> =>
       /\ pc = "done"
       /\ outcome = "returned"
       /\ op # "connect"
       /\ g_consumed = 1
       /\ result.message = msg
       /\ result.address = ExpectedAddress(address)
       /\ submits[1].fn = SubmitFn(op)
       /\ submits[1].signature = result.signature
  /\ outcome # "returned" => submits = <<>>

C3_Witness ==
  /\ pc = "done"
  /\ op = "transfer_nft"
  /\ Len(submits) = 1
  /\ submits[1].fn = "imx_finish_transfer"

\* C4: the result an operation consumes was POSTed after that operation's
\* own publish.
C4_ResultAfterOwnPublish ==
  (pc \in {"finish", "done"} /\ g_consumed = 1)
    => result.pub = g_npub

\* C5: while an operation has published and not yet consumed a result,
\* GET /message returns that operation's message, also when the previous
\* request was never answered; and a result carrying the previous,
\* unanswered request's message (different from the current one) that is
\* POSTed after the current publish is rejected with the validation error.
C5_LastWriterWins ==
  /\ (resp.path = "/message" /\ pc \in {"write_action", "print", "get"})
       => resp.text = msg
  /\ (/\ pc = "done"
      /\ g_prev # ""
      /\ g_prev # msg
      /\ g_consumed = 1
      /\ result.pub = g_npub
      /\ result.message = g_prev)
       => (outcome = "AssertionError" /\ submits = <<>>)

C5_Witness ==
  /\ pc = "done"
  /\ op # "connect"
  /\ g_prev # ""
  /\ g_prev # msg
  /\ g_consumed = 1
  /\ result.pub = g_npub
  /\ result.message = g_prev
  /\ result.address = ExpectedAddress(address)
  /\ outcome = "AssertionError"

\* C6: a GET /action that finds a message pending serves the description of
\* the same publish as that message.
C6_GetSeesOnePublish ==
  (resp.path = "/action" /\ resp.msgPub # 0) => resp.actPub = resp.msgPub

\* C7: after finish_signature_request the stored message and the stored
\* description are both the empty string.
C7_SlotCleared ==
  pc = "done" /\ g_consumed = 1
    => (message_to_sign = "" /\ action_to_perform = "")

\* C8: when an operation has failed validation, no message is pending and
\* no result POSTed since that operation's publish is left in the queue.
C8_ConsistentAfterFailure ==
  (pc = "done" /\ outcome = "AssertionError")
    => /\ message_to_sign = ""
       /\ \A i \in DOMAIN signature_queue : signature_queue[i].pub # g_npub

\* C9: an operation takes exactly one result from the queue, the one at its
\* head whether or not it matches the request, leaves the rest of the queue
\* in place, and on a result that does not match raises the validation
\* error without taking another result.
C9_ExactlyOneResultConsumed ==
  [][ /\ g_consumed' <= 1
      /\ (\/ Len(signature_queue') < Len(signature_queue)
          \/ (pc # "finish" /\ pc' = "finish"))
           => /\ pc = "get"
              /\ pc' = "finish"
              /\ result' = Head(signature_queue)
              /\ signature_queue' = Tail(signature_queue)
              /\ g_consumed' = 1
      /\ (pc = "finish" /\ pc' # "finish")
           => /\ g_consumed = 1
              /\ pc' = "done"
              /\ g_consumed' = 1
              /\ ~Matches => outcome' = "AssertionError" ]_vars

C9_Witness ==
  /\ pc = "done"
  /\ outcome = "AssertionError"
  /\ g_consumed = 1
  /\ result.pub < g_npub
  /\ signature_queue # <<>>

\* C10: when the queue was empty at the publish, the first result POSTed
\* afterwards is the one the waiting operation can take, and if it carries
\* the published message (and the wallet's address in hex where the address
\* is checked) the operation returns and uses that result's signature:
\* connect stores it as the seed, the others pass it to their submit call.
C10_HappyPath ==
  /\ (pc = "get" /\ g_firstPost \notin {NoResult, Awaited})
       => (signature_queue # <<>> /\ Head(signature_queue) = g_firstPost)
  /\ (pc = "get" /\ g_firstPost = Awaited) => signature_queue = <<>>
  /\ (pc = "done" /\ g_firstPost \notin {NoResult, Awaited})
       => /\ outcome = "returned"
          /\ result = g_firstPost
          /\ IF op = "connect"
             THEN /\ imx_seed = ParseHex(g_firstPost.signature)
                  /\ address = ParseHex(g_firstPost.address)
             ELSE submits = << [fn |-> SubmitFn(op), seed |-> imx_seed,
                                signature |-> g_firstPost.signature] >>

C10_Witness ==
  /\ pc = "done"
  /\ op = "buy_nft"
  /\ g_firstPost \notin {NoResult, Awaited}
  /\ g_firstPost.message = msg
  /\ g_firstPost.address = ExpectedAddress(address)
  /\ outcome = "returned"
  /\ submits # <<>>

\* the relay server as the caller sees it: NotStarted until a server thread
\* is created, Running while a server thread is alive, Stopped afterwards
Alive(t) == thr[t] \in {"started", "port_set", "serving"}

ServerState ==
  IF \A t \in Threads : thr[t] = "unstarted" THEN "NotStarted"
  ELSE IF \E t \in Threads : Alive(t) THEN "Running"
  ELSE "Stopped"

Rank(s) == CASE s = "NotStarted" -> 0 [] s = "Running" -> 1 [] s = "Stopped" -> 2

\* C11: the relay server only moves NotStarted -> Running -> Stopped; it
\* becomes Running only in the step in which an operation calls
\* request_signature, a serving thread ends only after shutdown was called
\* on it, and once a server has stopped no request_signature call starts a
\* server thread again.
C11_ServerLifecycle ==
  [][ /\ Rank(ServerState') >= Rank(ServerState)
      /\ (ServerState = "NotStarted" /\ ServerState' # "NotStarted")
           => (pc = "idle" /\ pc' = "write_message" /\ ServerState' = "Running")
      /\ \A t \in Threads :
           /\ (thr[t] = "serving" /\ thr'[t] # "serving")
                => (t \in shutdown_request /\ thr'[t] = "stopped")
           /\ (thr[t] = "unstarted" /\ thr'[t] # "unstarted")
                => /\ pc = "idle" /\ pc' = "write_message"
                   /\ \A u \in Threads : thr[u] # "stopped" ]_vars

C11_Witness ==
  /\ ServerState = "Stopped"
  /\ pc = "write_action"
  /\ \E t \in Threads : thr[t] = "unstarted"

\* C12: over any sequence of request_signature calls at most one server
\* thread is created and at most one bind of the port is attempted.
C12_SingleServerThread ==
  /\ Cardinality({t \in Threads : thr[t] # "unstarted"}) <= 1
  /\ Cardinality({t \in Threads : thr[t] \in {"serving", "failed", "stopped"}}) <= 1

\* C13: when shutdown_server is called after a request_signature call has
\* returned, it does not return while the relay server is still running.
C13_ShutdownStops ==
  pc = "shutdown_done" => ServerState # "Running"

\* C14: shutdown_server called while no server was ever started raises
\* nothing, starts nothing and leaves message, description and result
\* channel as they are.
C14_ShutdownNoop ==
  [][ (pc = "idle" /\ pc' \in {"shutdown_done", "shutdown_wait"}
         /\ ServerState = "NotStarted")
        => /\ pc' = "shutdown_done"
           /\ outcome' = "none"
           /\ ServerState' = "NotStarted"
           /\ UNCHANGED << globalVars, serverVars >> ]_vars

C14_Witness ==
  /\ pc = "shutdown_done"
  /\ ServerState = "NotStarted"
  /\ g_npub = 0
  /\ outcome = "none"

\* C15: an operation that waits on an empty result channel keeps waiting,
\* with nothing of the caller changed, through every step; only a POST
\* /signature puts a result into the channel.
C15_NoTimeout ==
  [][ (pc = "get" /\ signature_queue = <<>>)
        => /\ pc' = "get"
           /\ UNCHANGED callerVars
           /\ signature_queue' # <<>>
                => (resp'.path = "/signature" /\ resp'.kind = "200") ]_vars

C15_Witness ==
  /\ pc = "get"
  /\ signature_queue = <<>>
  /\ resp.path = "/action"
  /\ resp.kind = "description"
  /\ resp.text = Description(op)

\* the parsed body a queued result carries
Data(r) ==
  [address |-> r.address, message |-> r.message, signature |-> r.signature]

\* C16: results are handed out in the order their POSTs were received,
\* none lost and none twice: the channel holds as many results as there are
\* accepted POSTs not yet handed out, and each get hands out the parsed body
\* of the oldest of them.
C16_FifoOrder ==
  /\ [](Len(signature_queue) = Len(g_posted))
  /\ [][ (pc = "get" /\ pc' = "finish")
           => /\ g_posted # <<>>
              /\ Data(result') = json_loads(Head(g_posted))
              /\ g_posted' = Tail(g_posted) ]_vars

C16_Witness ==
  /\ pc = "finish"
  /\ g_consumed = 1
  /\ Len(g_posted) = 1
  /\ json_loads(g_posted[1]) # Data(result)
  /\ result.pub = signature_queue[1].pub

\* C17: GET /message returns the message of the latest publish while the
\* operation has not finished it, and an empty body when nothing is pending:
\* before the first publish and after an operation has finished its request.
C17_GetMessage ==
  /\ resp.path = "/message" => resp.text = g_pending
  /\ (resp.path = "/message" /\ pc \in {"write_action", "print", "get", "finish"})
       => resp.text = msg
  /\ (resp.path = "/message" /\ (g_npub = 0 \/ (pc = "done" /\ g_consumed = 1)))
       => resp.text = ""

C17_Witness ==
  /\ resp.path = "/message"
  /\ resp.text = ""
  /\ pc = "done"
  /\ g_consumed = 1
  /\ outcome = "returned"

\* C18: GET /action returns the fallback text exactly when no message is
\* pending, whatever description is stored; a generated text is returned
\* only for a pending message with no description read, and names that
\* message.
C18_GetAction ==
  resp.path = "/action"
    => /\ (resp.text = FallbackText) <=> (g_pending = "")
       /\ resp.kind = "generated"
            => (g_pending # "" /\ resp.actPub = 0 /\ resp.text = g_pending)

\* C19: a POST /signature answered with 200 has appended exactly one result
\* to the result channel, with the address, message and signature of the
\* object the page stringified into the body, whether or not a message is
\* pending; the response has no body and nothing else in the channel moves.
C19_PostAppendsBody ==
  [][ (resp'.path = "/signature" /\ resp'.kind = "200")
        => /\ resp'.text = ""
           /\ Len(signature_queue') = Len(signature_queue) + 1
           /\ SubSeq(signature_queue', 1, Len(signature_queue)) = signature_queue
           /\ Len(g_posted') = Len(g_posted) + 1
           /\ \E r \in Results :
                /\ g_posted'[Len(g_posted')] = Stringify(r)
                /\ Data(signature_queue'[Len(signature_queue')]) = r ]_vars

C19_Witness ==
  /\ resp.path = "/signature"
  /\ resp.kind = "200"
  /\ g_pending = ""
  /\ pc = "idle"
  /\ g_npub > 0
  /\ Len(signature_queue) = 1
  /\ signature_queue[1].address = <<"0","x","0","A">>

\* C20: after a POST /signature whose body cannot be parsed the operation
\* that was blocked on the result channel is no longer waiting: it has been
\* told of the failure.
C20_MalformedSurfaced ==
  (resp.path = "/signature" /\ resp.kind = "JSONDecodeError") => pc # "get"

\* C29: the address string a connect has accepted passes the address check
\* of every later signing operation: a result that carries the same string
\* and the requested message is accepted.
C29_OwnAddressAccepted ==
  (pc = "done" /\ op = "connect" /\ outcome = "returned")
    => /\ ExpectedAddress(address) = result.address
       /\ \A o \in {"register_address", "sell_nft", "cancel_order",
                    "transfer_nft", "transfer_token", "buy_nft"} :
            \A m \in RequestMessages(o) :
              Accepts(o, [result EXCEPT !.message = m], m, address)

\* C30: the caller reads PORT for the relay URL only after a server thread
\* has assigned it: no operation ends with NameError at the print.
C30_PortSetBeforeRead ==
  /\ outcome # "NameError"
  /\ pc = "get" => PORT # 0

\* C21: while the caller waits for a result, every GET the server has
\* accepted is eventually answered; the answer to a request accepted during
\* the wait carries the current contents of the slots, and answering leaves
\* the caller, the slots and the result channel as they are.
C21_Current ==
  CASE request.path = "/" -> resp' = Response("/", "page", "HTML_CONTENT", 0, 0)
    [] request.path = "/message" ->
         /\ resp'.kind = "message"
         /\ resp'.text = message_to_sign /\ resp'.text = msg
    [] request.path = "/action" ->
         IF action_to_perform = ""
         THEN resp'.kind = "generated" /\ resp'.text = message_to_sign
         ELSE resp'.kind = "description" /\ resp'.text = action_to_perform

C21_GetAnsweredWhileWaiting ==
  /\ [][ (request # NoRequest /\ request' = NoRequest)
           => /\ resp'.path = request.path
              /\ UNCHANGED << callerVars, globalVars >>
              /\ (pc = "get" /\ request.pub = g_npub) => C21_Current ]_vars
  /\ \A p \in Paths : (pc = "get" /\ request.path = p) ~> (resp.path = p)

C21_Witness ==
  /\ pc = "get"
  /\ signature_queue = <<>>
  /\ resp.path = "/action" /\ resp.kind = "description"
  /\ resp.text = action_to_perform
  /\ g_npub = 2

\* C22: decrypt of what encrypt returned, under the same key, returns the
\* plaintext encrypt was given, whatever its length and whatever vector
\* encrypt drew.
C22_CipherRoundTrip ==
  (/\ call.fn = "decrypt" /\ prev.call.fn = "encrypt"
   /\ call.data = prev.ret.value /\ call.key = prev.call.key)
    => ret = Return(prev.call.data)

C22_Witness ==
  /\ call.fn = "decrypt" /\ prev.call.fn = "encrypt"
  /\ call.data = prev.ret.value /\ call.key = prev.call.key
  /\ Len(prev.call.data) = BlockSize
  /\ ret = Return(prev.call.data)

C27_PaddingCheckOnly ==
  call.fn = "decrypt" =>
    LET dec == Decrypted(call.data, call.key)
        n == dec[Len(dec)]
        padded == /\ n >= 1 /\ n <= Len(dec)
                  /\ \A i \in (Len(dec) - n + 1) .. Len(dec) : dec[i] = n
    IN IF padded
       THEN ret = Return(SubSeq(dec, 1, Len(dec) - n))
       ELSE ret = Raise("ValueError")

C27_Witness ==
  /\ call.fn = "decrypt"
  /\ Decrypted(call.data, call.key) = Repeat(17, 16)
  /\ ret = Raise("ValueError")

\* C23: load_wallet on the file save_wallet wrote for key k under password
\* p, called with the same p, returns k, also when k has leading zero
\* bytes.
C23_VaultRoundTrip ==
  call.fn = "load_wallet" =>
    \A g \in g_saved :
      (g.name = call.file /\ g.password = call.password) => ret = Return(g.key)

C23_Witness ==
  /\ call.fn = "load_wallet"
  /\ \E g \in g_saved :
       /\ g.name = call.file /\ g.password = call.password
       /\ Len(g.key) < KeyLen
       /\ ret = Return(g.key)

\* C24: load_wallet on a file saved under password p, called with another
\* password, raises ValueError and returns nothing.
C24_WrongPasswordRejected ==
  call.fn = "load_wallet" =>
    \A g \in g_saved :
      (g.name = call.file /\ g.password # call.password)
        => ret = Raise("ValueError")

\* C26: for every wallet file in the directory, the address read from it
\* without a password (its first field alone) is the address of the key that
\* load_wallet returns under the password it was saved with, and reading or
\* loading leaves the files as they are.
C26_AddressMatchesKey ==
  /\ [](\A f \in files : \E g \in g_saved :
          /\ g.name = f.name
          /\ LET r == load_wallet_result(f.content, g.password)
             IN /\ r.raised = ""
                /\ load_wallet_address(f.content) = eth_get_address(r.value)
                /\ load_wallet_address(f.content)
                     = load_wallet_address(SubSeq(f.content, 1, 1)))
  /\ [][ call'.fn \in {"load_wallet_address", "load_wallet"}
           => UNCHANGED files ]_vars

C26_Witness ==
  /\ Cardinality(files) = 2
  /\ call.fn = "load_wallet_address"
  /\ \E g \in g_saved :
       /\ g.name = call.file
       /\ ret = Return(eth_get_address(g.key))

\* C28: in the password loop of prompt_load_wallet a load that raises
\* ValueError is followed by another prompt, however many have failed, and
\* the function returns only the value of a load_wallet call that did not
\* raise.
C28_RepromptUntilLoaded ==
  /\ [][ ppc = "password" =>
           /\ call'.fn = "load_wallet" /\ call'.file = choice
           /\ ret' = load_wallet_result(FileOf(choice).content, call'.password)
           /\ (ret'.raised = "ValueError") => (ppc' = "password" /\ eth_priv' = NoValue)
           /\ (ppc' = "returned") => (ret'.raised = "" /\ eth_priv' = ret') ]_vars
  /\ []((ppc = "returned" /\ choice # << >>)
          => (eth_priv.raised = "" /\ eth_priv = ret /\ call.fn = "load_wallet"))

C28_Witness ==
  /\ ppc = "returned"
  /\ choice # << >>
  /\ g_failed = MaxAttempts
  /\ eth_priv = ret
  /\ \E g \in g_saved : g.name = choice /\ eth_priv = Return(g.key)

=============================================================================
